---- MODULE Spec2Model ----
(***************************************************************************)
(* A model of devspace's helm client (pkg/devspace/clients/helm/client.go) *)
(* and of the wait indicator it drives (pkg/util/log/loading_text.go).     *)
(*                                                                         *)
(* Six specifications share one set of variables; each moves only its own  *)
(* groups and leaves the others at their initial values:                   *)
(*   SpecClient    NewClient with ensureTiller and ensureRoleBinding       *)
(*   SpecTeardown  DeleteTiller                                            *)
(*   SpecLifecycle ensureTiller on an empty cluster, then DeleteTiller     *)
(*   SpecRelease   ReleaseExists / InstallChartByPath, two callers         *)
(*   SpecRepos     updateRepos, one goroutine per repository               *)
(*   SpecIndicator loadingText: Start, Stop and the render goroutine       *)
(***************************************************************************)
EXTENDS Integers, Sequences, FiniteSets, TLC

VARIABLES
  \* ---- the cluster, as seen through the kubernetes clientset
  deployment,       \* the tiller-deploy Deployment: [exists, replicas, readyReplicas]
  serviceAccounts,  \* set of [ns, name, extra]
  roles,            \* set of <<namespace, name>>
  roleBindings,     \* set of <<namespace, name>>
  privateConfig,    \* [TillerNamespace, ReleaseNamespace]
  \* ---- NewClient / ensureTiller / ensureRoleBinding (one caller)
  pc,               \* position of the caller
  run,              \* number of NewClient calls made so far
  upgradeTiller,    \* NewClient's argument
  tillerCheckErr,   \* ensureTiller: error of the deployment lookup
  rbCall,           \* which ensureRoleBinding call of ensureTiller is active (0: none)
  rbErr,            \* what ensureRoleBinding returned to ensureTiller
  tillerErr,        \* what ensureTiller returned to NewClient
  tillerWaitingTime,
  tunnelWaitTime,
  tunnelErr,
  tunnel,           \* TRUE when portforwarder.New handed back a tunnel
  helmWaitTime,
  tillerError,      \* error of the last ListReleases probe
  ncResult,         \* what NewClient returned: [wrapper, err]
  \* ---- observations of the run (history; read by no action)
  saFault,          \* a ServiceAccounts call failed for a reason other than
                    \* NotFound / AlreadyExists
  polls,            \* readiness polls made by the current ensureTiller
  pollEqual,        \* some poll saw ReadyReplicas == Replicas
  tunnelAttempts,   \* portforwarder.New calls of the current NewClient
  tunnelOkAt,       \* the attempt that succeeded (0: none yet)
  lastConnectErr,   \* error of the most recent portforwarder.New call
  probeAttempts,    \* ListReleases probes of the current NewClient (saturating)
  saCreateCalls,    \* per run: ServiceAccounts.Create calls issued
  saAfterRun,       \* per run: serviceAccounts when the run returned
  saAtStart,        \* the tiller service account existed before the first run
  rbRoleErr,        \* outcome of the Roles.Create of the current ensureRoleBinding
  rbBindingErr,     \* outcome of its RoleBindings.Create
  waitLog,          \* StartWait / StopWait calls of the current NewClient
  etSteps,          \* steps of the current ensureTiller, each with what it returned
  \* ---- DeleteTiller
  tdPc,             \* position of DeleteTiller
  key,              \* index of the role loop (line 302)
  errs,             \* the errors collected so far
  tdResult,         \* what DeleteTiller returned
  tdAttempted,      \* (history) the deletions issued, in order
  tdFailed,         \* (history) the errors the cluster answered with, in order
  tdBefore,         \* (history) the cluster's objects when DeleteTiller was called
  \* ---- ReleaseExists / InstallChartByPath
  releases,         \* tiller's store: release name -> revision (0: no such release)
  upsert,           \* per caller: position, arguments, locals and observations
  \* ---- updateRepos
  repoFile,         \* the registry file: [readable, entries], an entry [valid]
  urPc,             \* position of updateRepos
  allRepos,         \* the entries LoadRepositoriesFile handed back
  repos,            \* the prepared repositories, by entry number
  next,             \* the element the current range loop is at
  wg,               \* the WaitGroup's counter
  task,             \* per entry: the goroutine's position
  outcome,          \* per entry: how DownloadIndexFile ended
  launches,         \* (history) per entry: goroutines started
  urResult,         \* what updateRepos returned
  \* ---- loadingText (the wait indicator)
  ltPc,             \* position of the caller of Start / Stop
  ltTask,           \* position of the goroutine started by Start
  Message,          \* l.Message
  isShown,          \* l.isShown
  loadingRune,      \* l.loadingRune
  stopChan,         \* l.stopChan: "nil" or "made" (an unbuffered channel)
  Stream,           \* l.Stream: what was written, each write with its writer
  ltI,              \* loop counter of Stop (line 85)
  ltCycles,         \* (history) Start calls so far
  ltRenders         \* (history) timer firings since the last Start

clusterVars == <<deployment, serviceAccounts, roles, roleBindings, privateConfig>>
clientVars == <<pc, run, upgradeTiller, tillerCheckErr, rbCall, rbErr, tillerErr,
                tillerWaitingTime, tunnelWaitTime, tunnelErr, tunnel, helmWaitTime,
                tillerError, ncResult>>
histVars == <<saFault, polls, pollEqual, tunnelAttempts, tunnelOkAt, lastConnectErr,
              probeAttempts, saCreateCalls, saAfterRun, saAtStart, rbRoleErr,
              rbBindingErr, waitLog, etSteps>>


etVars == <<tillerCheckErr, rbCall, rbErr, tillerErr, tillerWaitingTime>>
tunVars == <<tunnelWaitTime, tunnelErr, tunnel>>
helmVars == <<helmWaitTime, tillerError>>
etHist == <<polls, pollEqual>>
tunHist == <<tunnelAttempts, tunnelOkAt, lastConnectErr>>
rbHist == <<rbRoleErr, rbBindingErr>>
saHist == <<saCreateCalls, saAtStart>>

teardownVars == <<tdPc, key, errs, tdResult, tdAttempted, tdFailed, tdBefore>>

releaseVars == <<releases, upsert>>

repoVars == <<repoFile, urPc, allRepos, repos, next, wg, task, outcome, launches, urResult>>

indicatorVars == <<ltPc, ltTask, Message, isShown, loadingRune, stopChan, Stream, ltI,
                   ltCycles, ltRenders>>

vars == <<clusterVars, clientVars, histVars, teardownVars, releaseVars, repoVars,
          indicatorVars>>

\* what NewClient never touches
outsideClient == <<teardownVars, releaseVars, repoVars, indicatorVars>>

----------------------------------------------------------------------------
(* Bounds of the model *)

\* NewClient calls made one after the other against the same cluster
MaxRuns == 2
\* the ListReleases probe counter stops counting here (the loop itself goes on)
MaxProbes == 26
\* InstallChartByPath calls per caller
MaxUpserts == 1
\* entries of the repository registry file
MaxRepos == 3
\* Start / Stop pairs on one loadingText
MaxCycles == 2
\* firings of the render timer between a Start and its Stop
MaxRenders == 2
\* characters of the indicator's message
MaxMessage == 1

----------------------------------------------------------------------------
(* Values *)

Min(a, b) == IF a < b THEN a ELSE b

\* Go's error values: nil, or an error with a message (a sequence of tokens)
NilErr == [isNil |-> TRUE, msg |-> <<>>]
NewError(m) == [isNil |-> FALSE, msg |-> m]

ErrNotFound == NewError(<<"not found">>)
ErrAlreadyExists == NewError(<<"already exists">>)
ErrServer == NewError(<<"the server is currently unable to handle the request">>)

tillerServiceAccountName == <<"devspace-tiller">>
tillerRoleName == <<"devspace-tiller">>
tillerDeploymentName == <<"tiller-deploy">>
configManagerRoleName == <<"tiller-config-manager">>

Namespaces == {"kube-system", "apps"}

\* time.Duration values, in seconds
tunnelWaitTime0 == 2 * 60
tunnelCheckInterval == 5
helmWaitTime0 == 2 * 60
helmCheckInterval == 5
tillerWaitingTime0 == 2 * 60
tillerCheckInterval == 5

----------------------------------------------------------------------------
(* The cluster API (k8s.io/client-go), by its outcomes.                    *)
(* A call either does what it says or fails; a failure leaves the cluster  *)
(* as it was.                                                              *)

GetOutcomes(exists) == IF exists THEN {NilErr, ErrServer} ELSE {ErrNotFound, ErrServer}
CreateOutcomes(exists) == IF exists THEN {ErrAlreadyExists, ErrServer} ELSE {NilErr, ErrServer}
DeleteOutcomes(exists) == IF exists THEN {NilErr, ErrServer} ELSE {ErrNotFound, ErrServer}

IsFault(e) == e = ErrServer

\* a typed Get hands back a zero-valued object together with the error
EmptyDeployment == [exists |-> FALSE, replicas |-> 0, readyReplicas |-> 0]
DeploymentStates ==
  {EmptyDeployment} \cup
  {[exists |-> TRUE, replicas |-> r, readyReplicas |-> y] : r \in 0..1, y \in 0..1}
\* the ready replicas are among the replicas
DeploymentOk(d) == d.readyReplicas <= d.replicas

TillerSA(extra) ==
  [ns |-> privateConfig.TillerNamespace, name |-> tillerServiceAccountName, extra |-> extra]
SAExists(ns, name) == \E s \in serviceAccounts : s.ns = ns /\ s.name = name

\* name + "-binding"
BindingName(name) == name \o <<"-binding">>

\* the arguments of the two ensureRoleBinding calls of ensureTiller
RbName(k) == IF k = 1 THEN configManagerRoleName ELSE tillerRoleName
RbNamespace(k) ==
  IF k = 1 THEN privateConfig.TillerNamespace ELSE privateConfig.ReleaseNamespace

----------------------------------------------------------------------------
(* SpecClient: NewClient, ensureTiller, ensureRoleBinding                  *)

StartWait(log) == Append(log, "start")
StopWait(log) == Append(log, "stop")

Bump(seq) == [seq EXCEPT ![Len(seq)] = @ + 1]

\* (mutant) NewClient hands back a wrapper whatever happened
ReturnWrapperAlways(w, e) ==
  /\ pc' = "idle"
  /\ ncResult' = [wrapper |-> TRUE, err |-> e]
  /\ saAfterRun' = Append(saAfterRun, serviceAccounts)

\* NewClient returns (wrapper, err) to its caller
Return(w, e) ==
  /\ pc' = "idle"
  /\ ncResult' = [wrapper |-> w, err |-> e]
  /\ saAfterRun' = Append(saAfterRun, serviceAccounts)

InitCluster ==
  /\ privateConfig \in [TillerNamespace : {"kube-system"}, ReleaseNamespace : Namespaces]
  \* the status of a deployment that is there moves while it is polled
  \* (DeploymentStatusChange), so one status to start from is enough
  /\ deployment \in {EmptyDeployment, [exists |-> TRUE, replicas |-> 1, readyReplicas |-> 1]}
  /\ serviceAccounts \in {{}, {TillerSA("none")}, {TillerSA("labelled")}}
  \* the two grants are there from an earlier bootstrap, or not; a grant of which
  \* one half is there comes about when a create fails
  /\ \E grants \in {{}, 1..2} :
       /\ roles = {<<RbNamespace(k), RbName(k)>> : k \in grants}
       /\ roleBindings = {<<RbNamespace(k), BindingName(RbName(k))>> : k \in grants}

InitClient ==
  /\ pc = "idle"
  /\ run = 0
  /\ upgradeTiller = FALSE
  /\ tillerCheckErr = NilErr
  /\ rbCall = 0
  /\ rbErr = NilErr
  /\ tillerErr = NilErr
  /\ tillerWaitingTime = 0
  /\ tunnelWaitTime = 0
  /\ tunnelErr = NilErr
  /\ tunnel = FALSE
  /\ helmWaitTime = 0
  /\ tillerError = NilErr
  /\ ncResult = [wrapper |-> FALSE, err |-> NilErr]

InitHist ==
  /\ saFault = FALSE
  /\ polls = 0
  /\ pollEqual = FALSE
  /\ tunnelAttempts = 0
  /\ tunnelOkAt = 0
  /\ lastConnectErr = NilErr
  /\ probeAttempts = 0
  /\ saCreateCalls = <<>>
  /\ saAfterRun = <<>>
  /\ saAtStart = (serviceAccounts # {})
  /\ rbRoleErr = NilErr
  /\ rbBindingErr = NilErr
  /\ waitLog = <<>>
  /\ etSteps = <<>>

\* the objects DeleteTiller is after, as they are in the cluster
Objects ==
  [deployment |-> deployment.exists, serviceAccounts |-> serviceAccounts,
   roles |-> roles, roleBindings |-> roleBindings]

NoObjects ==
  [deployment |-> FALSE, serviceAccounts |-> {}, roles |-> {}, roleBindings |-> {}]

InitTeardown ==
  /\ tdBefore = NoObjects
  /\ tdPc = "idle"
  /\ key = 0
  /\ errs = <<>>
  /\ tdResult = NilErr
  /\ tdAttempted = <<>>
  /\ tdFailed = <<>>

\* the callers of InstallChartByPath, and the release names they use
Callers == {1, 2}
ReleaseNames == {<<"a">>, <<"a", "b">>}

NoCall ==
  [pc |-> "idle", n |-> 0, releaseName |-> <<>>, hasDependencies |-> FALSE,
   hasValues |-> FALSE, releaseExists |-> FALSE, releaseExistsErr |-> NilErr,
   historyErr |-> NilErr, historyKind |-> "none", issued |-> <<>>,
   release |-> FALSE, err |-> NilErr, prepErr |-> NilErr]

InitIdleRelease ==
  /\ releases = [name \in ReleaseNames |-> 0]
  /\ upsert = [c \in Callers |-> NoCall]

\* updateRepos before it is called, for a registry file f
InitUpdateRepos(f) ==
  /\ repoFile = f
  /\ urPc = "idle"
  /\ allRepos = <<>>
  /\ repos = <<>>
  /\ next = 0
  /\ wg = 0
  /\ task = [i \in 1..MaxRepos |-> "none"]
  /\ outcome = [i \in 1..MaxRepos |-> "none"]
  /\ launches = [i \in 1..MaxRepos |-> 0]
  /\ urResult = NilErr

\* line 54: the registry written on first use, with its one entry
defaultRepositories == [readable |-> TRUE, entries |-> <<[valid |-> TRUE]>>]

InitIdleRepos == InitUpdateRepos(defaultRepositories)

\* a loadingText as it is constructed, for a message m
InitLoadingText(m) ==
  /\ ltPc = "idle"
  /\ ltTask = "none"
  /\ Message = m
  /\ isShown = FALSE
  /\ loadingRune = 0
  /\ stopChan = "nil"
  /\ Stream = <<>>
  /\ ltI = 0
  /\ ltCycles = 0
  /\ ltRenders = 0

InitIdleIndicator == InitLoadingText(<<>>)

InitNewClient ==
  /\ InitCluster /\ InitClient /\ InitHist /\ InitTeardown /\ InitIdleRelease /\ InitIdleRepos
  /\ InitIdleIndicator

\* NewClient is called (line 78); its locals are fresh
NewClientCall ==
  /\ pc = "idle"
  /\ run < MaxRuns
  /\ run' = run + 1
  /\ upgradeTiller' \in BOOLEAN
  /\ pc' = "nc_config"
  /\ tillerCheckErr' = NilErr /\ rbCall' = 0 /\ rbErr' = NilErr /\ tillerErr' = NilErr
  /\ tillerWaitingTime' = 0 /\ tunnelWaitTime' = 0 /\ tunnelErr' = NilErr
  /\ tunnel' = FALSE /\ helmWaitTime' = 0 /\ tillerError' = NilErr
  /\ ncResult' = [wrapper |-> FALSE, err |-> NilErr]
  /\ polls' = 0 /\ pollEqual' = FALSE /\ tunnelAttempts' = 0 /\ tunnelOkAt' = 0
  /\ lastConnectErr' = NilErr /\ probeAttempts' = 0
  /\ saCreateCalls' = Append(saCreateCalls, 0)
  /\ rbRoleErr' = NilErr /\ rbBindingErr' = NilErr /\ waitLog' = <<>> /\ etSteps' = <<>>
  /\ UNCHANGED <<outsideClient, clusterVars, saFault, saAfterRun, saAtStart>>

ErrKubeconfig == NewError(<<"invalid configuration">>)

\* lines 79-85: config.LoadConfig, kubectl.GetClientConfig
GetClientConfig ==
  /\ pc = "nc_config"
  /\ \E err \in {NilErr, ErrKubeconfig} :
       IF err.isNil
       THEN /\ pc' = "et_check"
            /\ UNCHANGED <<ncResult, saAfterRun>>
       ELSE Return(FALSE, err)
  /\ UNCHANGED <<outsideClient, clusterVars, run, upgradeTiller, etVars, tunVars, helmVars, saFault, etHist, etSteps, tunHist, probeAttempts, saHist, rbHist, waitLog>>

\* ---- ensureTiller (lines 182-274)

\* ensureTiller returns err to NewClient; logAtExit is the wait log with the
\* calls the returning path makes
EnsureTillerReturn(err, logAtExit) ==
  /\ tillerErr' = err
  /\ waitLog' = logAtExit
  /\ pc' = "et_returned"

\* (history) a step of ensureTiller has returned err
Step(log, name, err) == Append(log, [step |-> name, err |-> err])

\* line 200: defer log.StopWait(), registered in the install branch only
Deferred(log) == IF tillerCheckErr.isNil THEN log ELSE StopWait(log)

\* lines 254-257: the readiness loop is entered
EnterPoll(steps, log) ==
  /\ tillerWaitingTime' = tillerWaitingTime0
  /\ waitLog' = StartWait(log)
  /\ pc' = "et_poll"
  /\ etSteps' = Step(steps, "readiness", NilErr)

\* line 195: the deployment lookup; lines 198, 241: the branch taken
EnsureTillerCheck ==
  /\ pc = "et_check"
  /\ \E err \in GetOutcomes(deployment.exists) :
       /\ tillerCheckErr' = err
       /\ UNCHANGED saFault
       /\ IF ~err.isNil
          THEN /\ waitLog' = StartWait(waitLog)
               /\ pc' = "et_sa_get"
               /\ UNCHANGED <<tillerWaitingTime, etSteps>>
          ELSE IF upgradeTiller
          THEN /\ waitLog' = StartWait(waitLog)
               /\ pc' = "et_upgrade"
               /\ UNCHANGED <<tillerWaitingTime, etSteps>>
          ELSE EnterPoll(etSteps, waitLog)
  /\ UNCHANGED <<outsideClient, clusterVars, run, upgradeTiller, rbCall, rbErr, tillerErr, tunVars,
                 helmVars, ncResult, etHist, tunHist, probeAttempts, saHist,
                 saAfterRun, rbHist>>

\* (mutant) the service account is created without looking at the lookup
NeedsCreateAlways(getErr) == TRUE

\* line 204: the service account is created when its lookup returned an error
NeedsCreate(getErr) == ~getErr.isNil

\* line 202: ServiceAccounts.Get
ServiceAccountGet ==
  /\ pc = "et_sa_get"
  /\ \E err \in GetOutcomes(SAExists(privateConfig.TillerNamespace, tillerServiceAccountName)) :
       /\ saFault' = (saFault \/ IsFault(err))
       /\ IF NeedsCreate(err)
          THEN pc' = "et_sa_create" /\ UNCHANGED <<rbCall, etSteps>>
          ELSE /\ pc' = "rb_role" /\ rbCall' = 1
               /\ etSteps' = Step(etSteps, "identity", NilErr)
  /\ UNCHANGED <<outsideClient, clusterVars, run, upgradeTiller, tillerCheckErr, rbErr, tillerErr,
                 tillerWaitingTime, tunVars, helmVars, ncResult, etHist,
                 tunHist, probeAttempts, saHist, saAfterRun, rbHist, waitLog>>

\* lines 205-209: ServiceAccounts.Create
ServiceAccountCreate ==
  /\ pc = "et_sa_create"
  /\ saCreateCalls' = Bump(saCreateCalls)
  /\ \E err \in CreateOutcomes(SAExists(privateConfig.TillerNamespace, tillerServiceAccountName)) :
       /\ saFault' = (saFault \/ IsFault(err))
       /\ etSteps' = Step(etSteps, "identity", err)
       /\ IF err.isNil
          THEN /\ serviceAccounts' = serviceAccounts \cup {TillerSA("none")}
               /\ pc' = "rb_role" /\ rbCall' = 1
               /\ UNCHANGED <<tillerErr, waitLog>>
          ELSE /\ EnsureTillerReturn(err, Deferred(waitLog))
               /\ UNCHANGED <<serviceAccounts, rbCall>>
  /\ UNCHANGED <<outsideClient, deployment, roles, roleBindings, privateConfig, run, upgradeTiller,
                 tillerCheckErr, rbErr, tillerWaitingTime, tunVars, helmVars, ncResult,
                 etHist, tunHist, probeAttempts, saAtStart, saAfterRun, rbHist>>

\* ---- ensureRoleBinding (lines 334-364)

\* lines 212, 232: the two grants ensureTiller asks for
GrantStep(k) == IF k = 1 THEN "base grant" ELSE "primary grant"

\* line 363: what ensureRoleBinding returns, given the errors of its two creates
EnsureRoleBindingResult(roleErr, bindingErr) == NilErr

\* line 360: Roles(namespace).Create(role), its result dropped
RoleCreate ==
  /\ pc = "rb_role"
  /\ \E err \in CreateOutcomes(<<RbNamespace(rbCall), RbName(rbCall)>> \in roles) :
       /\ UNCHANGED saFault
       /\ rbRoleErr' = err
       /\ rbBindingErr' = NilErr
       /\ roles' = IF err.isNil
                   THEN roles \cup {<<RbNamespace(rbCall), RbName(rbCall)>>}
                   ELSE roles
  /\ pc' = "rb_binding"
  /\ UNCHANGED <<outsideClient, deployment, serviceAccounts, roleBindings, privateConfig, run,
                 upgradeTiller, etVars, tunVars, helmVars, ncResult, etHist, etSteps,
                 tunHist, probeAttempts, saHist, saAfterRun, waitLog>>

\* lines 361-363: RoleBindings(namespace).Create(rolebinding), its result dropped,
\* and the return
RoleBindingCreate ==
  /\ pc = "rb_binding"
  /\ \E err \in CreateOutcomes(<<RbNamespace(rbCall), BindingName(RbName(rbCall))>> \in roleBindings) :
       /\ UNCHANGED saFault
       /\ rbBindingErr' = err
       /\ roleBindings' = IF err.isNil
                          THEN roleBindings \cup {<<RbNamespace(rbCall), BindingName(RbName(rbCall))>>}
                          ELSE roleBindings
       /\ rbErr' = EnsureRoleBindingResult(rbRoleErr, err)
       /\ etSteps' = Step(etSteps, GrantStep(rbCall), EnsureRoleBindingResult(rbRoleErr, err))
  /\ pc' = "et_rb_ret"
  /\ UNCHANGED <<outsideClient, deployment, serviceAccounts, roles, privateConfig, run, upgradeTiller,
                 tillerCheckErr, rbCall, tillerErr, tillerWaitingTime, tunVars, helmVars,
                 ncResult, etHist, tunHist, probeAttempts, saHist, saAfterRun,
                 rbRoleErr, waitLog>>

\* lines 226-228 and 234-238: ensureTiller looks at what ensureRoleBinding returned
EnsureTillerAfterRoleBinding ==
  /\ pc = "et_rb_ret"
  /\ IF ~rbErr.isNil
     THEN /\ EnsureTillerReturn(rbErr, Deferred(waitLog))
          /\ UNCHANGED <<tillerWaitingTime, etSteps>>
     ELSE IF rbCall = 1
     THEN /\ pc' = "et_install"
          /\ UNCHANGED <<tillerErr, waitLog, tillerWaitingTime, etSteps>>
     ELSE /\ EnterPoll(etSteps, StopWait(waitLog))
          /\ UNCHANGED tillerErr
  \* the ensureRoleBinding call is over
  /\ rbErr' = NilErr /\ rbRoleErr' = NilErr /\ rbBindingErr' = NilErr
  /\ UNCHANGED <<outsideClient, clusterVars, run, upgradeTiller, tillerCheckErr, rbCall, tunVars,
                 helmVars, ncResult, saFault, etHist, tunHist, probeAttempts,
                 saHist, saAfterRun>>

\* line 230: helminstaller.Install creates the deployment; its error is dropped
TillerInstall ==
  /\ pc = "et_install"
  /\ \E err \in CreateOutcomes(deployment.exists) :
       /\ UNCHANGED saFault
       /\ etSteps' = Step(etSteps, "install", err)
       /\ deployment' = IF err.isNil
                        THEN [exists |-> TRUE, replicas |-> 0, readyReplicas |-> 0]
                        ELSE deployment
  /\ pc' = "rb_role"
  /\ rbCall' = 2
  /\ UNCHANGED <<outsideClient, serviceAccounts, roles, roleBindings, privateConfig, run, upgradeTiller,
                 tillerCheckErr, rbErr, tillerErr, tillerWaitingTime, tunVars, helmVars,
                 ncResult, etHist, tunHist, probeAttempts, saHist, saAfterRun,
                 rbHist, waitLog>>

\* (mutant) the error of the upgrade is not looked at
UpgradeFailedNever(err) == FALSE

\* line 249
UpgradeFailed(err) == err # NilErr

\* lines 242-251: helminstaller.Upgrade updates the deployment in place
TillerUpgrade ==
  /\ pc = "et_upgrade"
  /\ \E err \in GetOutcomes(deployment.exists) :
       /\ UNCHANGED saFault
       /\ IF ~UpgradeFailed(err)
          THEN /\ EnterPoll(Step(etSteps, "upgrade", err), StopWait(waitLog))
               /\ UNCHANGED tillerErr
          ELSE /\ EnsureTillerReturn(err, StopWait(waitLog))
               /\ UNCHANGED tillerWaitingTime
               /\ etSteps' = Step(etSteps, "upgrade", err)
  /\ UNCHANGED <<outsideClient, clusterVars, run, upgradeTiller, tillerCheckErr, rbCall, rbErr, tunVars,
                 helmVars, ncResult, etHist, tunHist, probeAttempts, saHist,
                 saAfterRun, rbHist>>

\* line 262: the readiness test on the object the lookup handed back
ReadyObserved(d) == d.readyReplicas = d.replicas

\* line 273: what ensureTiller returns after the readiness loop; ready tells whether
\* the loop ended by the break of line 263 (TRUE) or by its condition (FALSE)
ReadinessResult(ready) == NilErr

\* line 267
TillerNextWait(w) == w - tillerCheckInterval

\* lines 259-273: one pass of the readiness loop, and lines 270-273 when it ends.
\* The error of the lookup (line 260) is dropped.
TillerPoll ==
  /\ pc = "et_poll"
  /\ tillerWaitingTime > 0
  /\ polls' = polls + 1
  /\ \E err \in GetOutcomes(deployment.exists) :
       LET tillerDeployment == IF err.isNil THEN deployment ELSE EmptyDeployment
           left == TillerNextWait(tillerWaitingTime)
       IN /\ UNCHANGED <<saFault, etSteps>>
          /\ IF ReadyObserved(tillerDeployment)
             THEN /\ pollEqual' = TRUE
                  /\ EnsureTillerReturn(ReadinessResult(TRUE), Deferred(StopWait(waitLog)))
                  /\ UNCHANGED tillerWaitingTime
             ELSE /\ tillerWaitingTime' = left
                  /\ UNCHANGED pollEqual
                  /\ IF left > 0
                     THEN UNCHANGED <<pc, tillerErr, waitLog>>
                     ELSE EnsureTillerReturn(ReadinessResult(FALSE), Deferred(StopWait(waitLog)))
  /\ UNCHANGED <<outsideClient, clusterVars, run, upgradeTiller, tillerCheckErr, rbCall, rbErr, tunVars,
                 helmVars, ncResult, tunHist, probeAttempts, saHist,
                 saAfterRun, rbHist>>

\* the deployment controller and the kubelet move the deployment's status while
\* ensureTiller polls it (the status is read nowhere else)
DeploymentStatusChange ==
  /\ pc = "et_poll"
  /\ deployment.exists
  /\ \E r \in 0..1, y \in 0..1 :
       /\ y <= r
       /\ deployment' = [exists |-> TRUE, replicas |-> r, readyReplicas |-> y]
       /\ deployment' # deployment
  /\ UNCHANGED <<outsideClient, serviceAccounts, roles, roleBindings, privateConfig, clientVars, histVars>>

\* ---- NewClient after ensureTiller (lines 89-180)

\* lines 89-99: NewClient looks at what ensureTiller returned
AfterEnsureTiller ==
  /\ pc = "et_returned"
  /\ IF ~tillerErr.isNil
     THEN /\ Return(FALSE, tillerErr)
          /\ UNCHANGED <<tunnelWaitTime, waitLog>>
     ELSE /\ tunnelWaitTime' = tunnelWaitTime0
          /\ waitLog' = StartWait(waitLog)
          /\ pc' = "tunnel"
          /\ UNCHANGED <<ncResult, saAfterRun>>
  \* ensureTiller's locals are gone, and with them what was observed of them
  /\ tillerCheckErr' = NilErr /\ rbCall' = 0 /\ rbErr' = NilErr
  /\ tillerWaitingTime' = 0
  /\ polls' = 0 /\ pollEqual' = FALSE /\ etSteps' = <<>>
  /\ rbRoleErr' = NilErr /\ rbBindingErr' = NilErr
  \* line 87 is the last place that reads the argument
  /\ upgradeTiller' = FALSE
  /\ UNCHANGED <<outsideClient, clusterVars, run, tillerErr, tunnelErr, tunnel, helmVars,
                 saFault, tunHist, probeAttempts, saHist>>

ErrNoPod == NewError(<<"could not find tiller">>)
ErrDial == NewError(<<"error upgrading connection">>)
ConnectOutcomes == {NilErr, ErrNoPod, ErrDial}

\* line 104
TunnelBreaks(err, w) == err.isNil \/ w < 0

\* (mutant) the budget is charged twice per failed attempt
TunnelNextWaitTwice(w) == w - 2 * tunnelCheckInterval

\* line 108
TunnelNextWait(w) == w - tunnelCheckInterval

\* lines 101-110: one pass of the port-forward loop
TunnelConnect ==
  /\ pc = "tunnel"
  /\ tunnelWaitTime > 0
  /\ tunnelAttempts' = tunnelAttempts + 1
  /\ \E err \in ConnectOutcomes :
       LET left == TunnelNextWait(tunnelWaitTime)
       IN /\ tunnelErr' = err
          /\ tunnel' = err.isNil
          /\ lastConnectErr' = err
          /\ tunnelOkAt' = IF err.isNil THEN tunnelAttempts + 1 ELSE tunnelOkAt
          /\ IF TunnelBreaks(err, tunnelWaitTime)
             THEN pc' = "tunnel_done" /\ UNCHANGED tunnelWaitTime
             ELSE /\ tunnelWaitTime' = left
                  /\ pc' = IF left > 0 THEN "tunnel" ELSE "tunnel_done"
  /\ UNCHANGED <<outsideClient, clusterVars, run, upgradeTiller, etVars, helmVars, ncResult, saFault, etHist, etSteps, probeAttempts, saHist, saAfterRun, rbHist, waitLog>>

\* lines 112-128: after the port-forward loop
TunnelDone ==
  /\ pc = "tunnel_done"
  /\ waitLog' = IF tunnelErr.isNil THEN StartWait(StopWait(waitLog)) ELSE StopWait(waitLog)
  /\ IF ~tunnelErr.isNil
     THEN /\ Return(FALSE, tunnelErr)
          /\ UNCHANGED <<helmWaitTime, tunHist, tunnelWaitTime>>
     ELSE /\ helmWaitTime' = helmWaitTime0
          /\ pc' = "health"
          /\ tunnelWaitTime' = 0
          /\ tunnelAttempts' = 0 /\ tunnelOkAt' = 0 /\ lastConnectErr' = NilErr
          /\ UNCHANGED <<ncResult, saAfterRun>>
  /\ UNCHANGED <<outsideClient, clusterVars, run, upgradeTiller, etVars, tunnelErr, tunnel, tillerError,
                 saFault, etHist, etSteps, probeAttempts, saHist, rbHist>>

ErrRPC == NewError(<<"context deadline exceeded">>)

\* line 133
HealthBreaks(err, w) == err.isNil \/ w < 0

\* lines 130-136: the loop body assigns nothing to helmWaitTime
HelmNextWait(w) == w

\* lines 130-136: one pass of the RPC health loop
HealthProbe ==
  /\ pc = "health"
  /\ helmWaitTime > 0
  /\ probeAttempts' = Min(probeAttempts + 1, MaxProbes)
  /\ \E err \in {NilErr, ErrRPC} :
       LET left == HelmNextWait(helmWaitTime)
       IN /\ tillerError' = err
          /\ IF HealthBreaks(err, helmWaitTime)
             THEN pc' = "health_done" /\ UNCHANGED helmWaitTime
             ELSE /\ helmWaitTime' = left
                  /\ pc' = IF left > 0 THEN "health" ELSE "health_done"
  /\ UNCHANGED <<outsideClient, clusterVars, run, upgradeTiller, etVars, tunVars, ncResult, saFault, etHist, etSteps, tunHist, saHist, saAfterRun, rbHist, waitLog>>

\* lines 138-143: after the health loop
HealthDone ==
  /\ pc = "health_done"
  /\ waitLog' = StopWait(waitLog)
  /\ IF ~tillerError.isNil
     THEN Return(FALSE, tillerError)
     ELSE pc' = "finish" /\ UNCHANGED <<ncResult, saAfterRun>>
  /\ probeAttempts' = 0
  /\ helmWaitTime' = 0
  /\ UNCHANGED <<outsideClient, clusterVars, run, upgradeTiller, etVars, tunVars, tillerError, saFault, etHist, etSteps, tunHist, saHist, rbHist>>

ErrHome == NewError(<<"unable to determine home directory">>)

\* lines 145-179: homedir.Dir, then the wrapper is handed back. The files of the
\* local helm home (written here, and by updateRepos, whose error is dropped) are
\* no part of this state.
Finish ==
  /\ pc = "finish"
  /\ \E err \in {NilErr, ErrHome} :
       IF ~err.isNil THEN Return(FALSE, err) ELSE Return(TRUE, NilErr)
  /\ UNCHANGED <<outsideClient, clusterVars, run, upgradeTiller, etVars, tunVars, helmVars, saFault,
                 etHist, etSteps, tunHist, probeAttempts, saHist, rbHist, waitLog>>

NextClient ==
  \/ NewClientCall
  \/ GetClientConfig
  \/ EnsureTillerCheck
  \/ ServiceAccountGet
  \/ ServiceAccountCreate
  \/ RoleCreate
  \/ RoleBindingCreate
  \/ EnsureTillerAfterRoleBinding
  \/ TillerInstall
  \/ TillerUpgrade
  \/ TillerPoll
  \/ DeploymentStatusChange
  \/ AfterEnsureTiller
  \/ TunnelConnect
  \/ TunnelDone
  \/ HealthProbe
  \/ HealthDone
  \/ Finish


SpecClient == InitNewClient /\ [][NextClient]_vars

----------------------------------------------------------------------------
(* Claims about NewClient, checked under SpecClient *)

RECURSIVE Sum(_)
Sum(seq) == IF seq = <<>> THEN 0 ELSE Head(seq) + Sum(Tail(seq))

\* the attempts a wait of `wait` allows at one attempt per `interval`
Budget(wait, interval) == wait \div interval

\* C1: the RPC health wait is bounded: the number of ListReleases probes never
\* exceeds what the configured wait allows (2 min at one probe per 5 s), so a
\* probe that fails every time ends the loop after that many attempts.
C1_HealthWaitBounded == probeAttempts <= Budget(helmWaitTime0, helmCheckInterval)

\* C2: when ensureTiller returns from readiness polling, it returns success if
\* some poll saw ready == desired, and otherwise an error, after exactly the
\* bounded number of polls.
C2_ReadinessOutcome ==
  (pc = "et_returned" /\ polls > 0) =>
     IF pollEqual
     THEN tillerErr.isNil
     ELSE ~tillerErr.isNil /\ polls = Budget(tillerWaitingTime0, tillerCheckInterval)

\* C3: the port-forward loop retries on a fixed interval: while it runs no attempt
\* has succeeded and the budget left is the budget less one interval per failed
\* attempt; it ends on the first success, or after exactly bound/interval failed
\* attempts, and then NewClient returns the last attempt's error and no client.
C3_TunnelRetry ==
  /\ tunnelAttempts <= Budget(tunnelWaitTime0, tunnelCheckInterval)
  /\ pc = "tunnel" =>
       /\ tunnelOkAt = 0
       /\ tunnelAttempts < Budget(tunnelWaitTime0, tunnelCheckInterval)
       /\ tunnelWaitTime = tunnelWaitTime0 - tunnelAttempts * tunnelCheckInterval
       /\ (tunnelAttempts > 0 => ~tunnelErr.isNil)
  /\ pc = "tunnel_done" =>
       /\ tunnelErr = lastConnectErr
       /\ IF tunnelErr.isNil
          THEN tunnelOkAt = tunnelAttempts /\ tunnel
          ELSE /\ tunnelOkAt = 0
               /\ tunnelAttempts = Budget(tunnelWaitTime0, tunnelCheckInterval)
  /\ (pc = "idle" /\ tunnelAttempts > 0) =>
       /\ tunnelAttempts = Budget(tunnelWaitTime0, tunnelCheckInterval)
       /\ ~ncResult.wrapper
       /\ ~ncResult.err.isNil
       /\ ncResult.err = lastConnectErr

\* C3 witness: NewClient has returned the error of the 24th failed attempt
C3_Witness ==
  /\ pc = "idle"
  /\ tunnelAttempts = 24
  /\ ncResult = [wrapper |-> FALSE, err |-> ErrDial]

\* C5: ensureRoleBinding returns success when its creates succeeded or failed with
\* already-exists, and returns the error when a create failed for another reason.
C5_GrantErrors ==
  pc = "et_rb_ret" =>
     IF {rbRoleErr, rbBindingErr} \subseteq {NilErr, ErrAlreadyExists}
     THEN rbErr.isNil
     ELSE ~rbErr.isNil /\ rbErr \in {rbRoleErr, rbBindingErr}

\* C8: with no fault on the service-account calls, the tiller service account is
\* created at most once over consecutive NewClient runs, and not at all when it
\* was there before; once a run has returned with the account in place, no later
\* run issues a create for it or changes it.
C8_IdentityIdempotent ==
  ~saFault =>
     /\ \A i \in 1..Len(saCreateCalls) : saCreateCalls[i] <= 1
     /\ Sum(saCreateCalls) = IF saAtStart \/ serviceAccounts = {} THEN 0 ELSE 1
     /\ \A i \in 1..Len(saAfterRun) :
          saAfterRun[i] # {} =>
             /\ serviceAccounts = saAfterRun[i]
             /\ \A j \in (i + 1)..Len(saCreateCalls) : saCreateCalls[j] = 0

\* C8 witness: two complete bootstrap runs through the install branch (five wait
\* calls in ensureTiller, four after it), the account created by the first only
C8_Witness ==
  /\ pc = "idle"
  /\ run = 2
  /\ ~saFault
  /\ saCreateCalls = <<1, 0>>
  /\ ncResult.wrapper
  /\ Len(waitLog) = 9

\* ensureTiller is running, or has just returned to NewClient
InEnsureTiller ==
  pc \in {"et_check", "et_sa_get", "et_sa_create", "rb_role", "rb_binding", "et_rb_ret",
          "et_install", "et_upgrade", "et_poll", "et_returned"}

\* the steps of a bootstrap, in the order the specification gives them
FreshSteps == <<"identity", "base grant", "install", "primary grant", "readiness">>

\* the grant of the k-th ensureRoleBinding call is in the cluster, role and binding
GrantExists(k) ==
  /\ <<RbNamespace(k), RbName(k)>> \in roles
  /\ <<RbNamespace(k), BindingName(RbName(k))>> \in roleBindings

\* C11: in a fresh environment (deployment lookup not-found, no upgrade asked for)
\* ensureTiller performs identity, base grant, install, primary grant, readiness
\* polling in this order; no step follows a step that returned an error; and when
\* it returns success the identity and the two grants are there.
C11_FreshBootstrap ==
  (InEnsureTiller /\ tillerCheckErr = ErrNotFound /\ ~upgradeTiller) =>
     /\ Len(etSteps) <= Len(FreshSteps)
     /\ \A i \in 1..Len(etSteps) : etSteps[i].step = FreshSteps[i]
     /\ \A i \in 1..(Len(etSteps) - 1) : etSteps[i].err.isNil
     /\ (pc = "et_returned" /\ tillerErr.isNil) =>
          /\ Len(etSteps) = Len(FreshSteps)
          /\ SAExists(privateConfig.TillerNamespace, tillerServiceAccountName)
          /\ GrantExists(1) /\ GrantExists(2)

\* the deployment lookup succeeded and an upgrade was asked for
UpgradePath ==
  /\ pc \in {"et_upgrade", "et_poll", "et_returned"}
  /\ tillerCheckErr.isNil
  /\ upgradeTiller

\* C12: on the upgrade path ensureTiller performs the upgrade and then readiness
\* polling and nothing else; an upgrade error is returned as it is, without a
\* single poll; and no step of the path changes the service accounts, the roles or
\* the role bindings.
C12_UpgradeFrame ==
  /\ [](UpgradePath =>
          /\ \A i \in 1..Len(etSteps) : etSteps[i].step = <<"upgrade", "readiness">>[i]
          /\ (pc # "et_upgrade" => Len(etSteps) >= 1)
          /\ (Len(etSteps) >= 1 /\ ~etSteps[1].err.isNil) =>
               /\ pc = "et_returned"
               /\ tillerErr = etSteps[1].err
               /\ Len(etSteps) = 1
               /\ polls = 0
          /\ (pc = "et_poll" \/ polls > 0) => Len(etSteps) = 2)
  /\ [][UpgradePath => UNCHANGED <<serviceAccounts, roles, roleBindings>>]_vars

\* C12 witness: an upgrade that went through and was then seen ready
C12_Witness ==
  /\ UpgradePath
  /\ pc = "et_returned"
  /\ tillerErr.isNil
  /\ pollEqual
  /\ etSteps = <<[step |-> "upgrade", err |-> NilErr], [step |-> "readiness", err |-> NilErr]>>

RoleWasThere ==
  ~rbRoleErr.isNil /\ <<RbNamespace(rbCall), RbName(rbCall)>> \in roles
BindingWasThere ==
  ~rbBindingErr.isNil /\ <<RbNamespace(rbCall), BindingName(RbName(rbCall))>> \in roleBindings

\* C14: when ensureRoleBinding has returned for a grant of which neither half was
\* there before the call, the role and the binding are both there or both not.
C14_GrantAsUnit ==
  (pc = "et_rb_ret" /\ ~RoleWasThere /\ ~BindingWasThere) =>
     (<<RbNamespace(rbCall), RbName(rbCall)>> \in roles
        <=> <<RbNamespace(rbCall), BindingName(RbName(rbCall))>> \in roleBindings)

\* C15: ensureTiller goes into its install branch only on a not-found lookup; on
\* any other lookup error it makes no identity, grant or install call and returns
\* the error.
C15_InstallOnlyOnNotFound ==
  (InEnsureTiller /\ tillerCheckErr \notin {NilErr, ErrNotFound}) =>
     /\ pc = "et_returned"
     /\ tillerErr = tillerCheckErr
     /\ etSteps = <<>>

\* C16: ensureTiller returns success only when its last readiness poll looked at a
\* deployment that is there and whose ready replicas equal its replicas, and never
\* after an install that failed.
C16_ReadyOnlyWhenObserved ==
  (pc = "et_returned" /\ tillerErr.isNil) =>
     /\ polls > 0 /\ pollEqual
     /\ deployment.exists /\ ReadyObserved(deployment)
     /\ \A i \in 1..Len(etSteps) : etSteps[i].step = "install" => etSteps[i].err.isNil

\* C21: while ensureTiller runs and when it has returned, its StartWait and
\* StopWait calls alternate, beginning with StartWait (so no StopWait is issued
\* with no indicator running), and it returns with no indicator left running.
C21_WaitAlternates ==
  InEnsureTiller =>
     /\ \A i \in 1..Len(waitLog) : waitLog[i] = IF i % 2 = 1 THEN "start" ELSE "stop"
     /\ pc = "et_returned" => Len(waitLog) % 2 = 0

----------------------------------------------------------------------------
(* SpecTeardown: DeleteTiller (lines 277-328)                              *)

\* what DeleteTiller never touches
outsideTeardown == <<clientVars, histVars, releaseVars, repoVars, indicatorVars>>

\* a failure whose Error() is the empty string
ErrBlank == NewError(<<>>)

\* Delete as DeleteTiller meets it: done, refused, or failed
TeardownOutcomes(exists) == DeleteOutcomes(exists) \cup {ErrBlank}

\* lines 292-295
deleteRoleNames == <<configManagerRoleName, tillerRoleName>>

\* (mutant) both roles are looked for in the tiller namespace
deleteRoleNamespacesTiller == <<privateConfig.TillerNamespace, privateConfig.TillerNamespace>>

\* lines 297-300
deleteRoleNamespaces == <<privateConfig.TillerNamespace, privateConfig.ReleaseNamespace>>

\* any of the objects DeleteTiller is after may be there or not
InitTeardownCluster ==
  /\ privateConfig \in [TillerNamespace : {"kube-system"}, ReleaseNamespace : Namespaces]
  /\ deployment \in {EmptyDeployment, [exists |-> TRUE, replicas |-> 1, readyReplicas |-> 1]}
  /\ serviceAccounts \in {{}, {TillerSA("none")}}
  /\ roles \in SUBSET {<<deleteRoleNamespaces[k], deleteRoleNames[k]>> : k \in 1..2}
  /\ roleBindings \in
       SUBSET {<<deleteRoleNamespaces[k], BindingName(deleteRoleNames[k])>> : k \in 1..2}

InitDeleteTiller ==
  /\ InitTeardownCluster /\ InitClient /\ InitHist /\ InitTeardown /\ InitIdleRelease
  /\ InitIdleRepos /\ InitIdleIndicator

\* lines 283, 289, 306, 312: if err != nil { errs = append(errs, err) }
Collect(list, err) == IF err.isNil THEN list ELSE Append(list, err)

\* (mutant) the errors are merged without the separating newline
RECURSIVE MergeNoNewline(_, _)
MergeNoNewline(list, i) ==
  IF i = 0 THEN <<>> ELSE MergeNoNewline(list, i - 1) \o list[i].msg

\* lines 317-321: errorText after the first i errors: errorText += value.Error() + "\n"
RECURSIVE Merge(_, _)
Merge(list, i) ==
  IF i = 0 THEN <<>> ELSE Merge(list, i - 1) \o list[i].msg \o <<"\n">>

\* lines 323-327
MergedError(list) ==
  LET errorText == Merge(list, Len(list))
  IN IF errorText = <<>> THEN NilErr ELSE NewError(errorText)

\* line 277: DeleteTiller is called
DeleteTillerCall ==
  /\ tdPc = "idle"
  /\ tdAttempted = <<>>
  /\ tdPc' = "deployment"
  /\ errs' = <<>>
  /\ tdBefore' = Objects
  /\ UNCHANGED <<outsideTeardown, clusterVars, key, tdResult, tdAttempted, tdFailed>>

\* lines 280-284
DeleteDeployment ==
  /\ tdPc = "deployment"
  /\ \E err \in TeardownOutcomes(deployment.exists) :
       /\ deployment' = IF err.isNil THEN EmptyDeployment ELSE deployment
       /\ errs' = Collect(errs, err)
       /\ tdFailed' = IF err.isNil THEN tdFailed ELSE Append(tdFailed, err)
  /\ tdAttempted' =
       Append(tdAttempted, <<"Deployment", privateConfig.TillerNamespace, tillerDeploymentName>>)
  /\ tdPc' = "serviceaccount"
  /\ UNCHANGED <<outsideTeardown, serviceAccounts, roles, roleBindings, privateConfig, key,
                 tdResult, tdBefore>>

\* lines 286-290
DeleteServiceAccount ==
  /\ tdPc = "serviceaccount"
  /\ \E err \in TeardownOutcomes(SAExists(privateConfig.TillerNamespace, tillerServiceAccountName)) :
       /\ serviceAccounts' =
            IF err.isNil
            THEN {s \in serviceAccounts :
                    ~(s.ns = privateConfig.TillerNamespace /\ s.name = tillerServiceAccountName)}
            ELSE serviceAccounts
       /\ errs' = Collect(errs, err)
       /\ tdFailed' = IF err.isNil THEN tdFailed ELSE Append(tdFailed, err)
  /\ tdAttempted' =
       Append(tdAttempted,
              <<"ServiceAccount", privateConfig.TillerNamespace, tillerServiceAccountName>>)
  /\ tdPc' = "role"
  /\ key' = 1
  /\ UNCHANGED <<outsideTeardown, deployment, roles, roleBindings, privateConfig, tdResult,
                 tdBefore>>

\* lines 302-307: the role of the pair at key
DeleteRole ==
  /\ tdPc = "role"
  /\ LET target == <<deleteRoleNamespaces[key], deleteRoleNames[key]>>
     IN /\ \E err \in TeardownOutcomes(target \in roles) :
             /\ roles' = IF err.isNil THEN roles \ {target} ELSE roles
             /\ errs' = Collect(errs, err)
             /\ tdFailed' = IF err.isNil THEN tdFailed ELSE Append(tdFailed, err)
        /\ tdAttempted' = Append(tdAttempted, <<"Role", target[1], target[2]>>)
  /\ tdPc' = "rolebinding"
  /\ UNCHANGED <<outsideTeardown, deployment, serviceAccounts, roleBindings, privateConfig,
                 key, tdResult, tdBefore>>

\* lines 309-314: the role binding of the pair at key, and the loop's step
DeleteRoleBinding ==
  /\ tdPc = "rolebinding"
  /\ LET target == <<deleteRoleNamespaces[key], BindingName(deleteRoleNames[key])>>
     IN /\ \E err \in TeardownOutcomes(target \in roleBindings) :
             /\ roleBindings' = IF err.isNil THEN roleBindings \ {target} ELSE roleBindings
             /\ errs' = Collect(errs, err)
             /\ tdFailed' = IF err.isNil THEN tdFailed ELSE Append(tdFailed, err)
        /\ tdAttempted' = Append(tdAttempted, <<"RoleBinding", target[1], target[2]>>)
  /\ IF key < Len(deleteRoleNames)
     THEN key' = key + 1 /\ tdPc' = "role"
     ELSE key' = key /\ tdPc' = "merge"
  /\ UNCHANGED <<outsideTeardown, deployment, serviceAccounts, roles, privateConfig,
                 tdResult, tdBefore>>

\* lines 316-327: the errors are merged and DeleteTiller returns
MergeErrors ==
  /\ tdPc = "merge"
  /\ tdResult' = MergedError(errs)
  /\ tdPc' = "idle"
  /\ UNCHANGED <<outsideTeardown, clusterVars, key, errs, tdAttempted, tdFailed, tdBefore>>

NextTeardown ==
  \/ DeleteTillerCall
  \/ DeleteDeployment
  \/ DeleteServiceAccount
  \/ DeleteRole
  \/ DeleteRoleBinding
  \/ MergeErrors

SpecTeardown == InitDeleteTiller /\ [][NextTeardown]_vars

----------------------------------------------------------------------------
(* Claims about DeleteTiller, checked under SpecTeardown *)

\* the entries of a text in which every entry ends with a newline
RECURSIVE Entries(_, _, _)
Entries(text, i, cur) ==
  IF i > Len(text) THEN (IF cur = <<>> THEN <<>> ELSE <<cur>>)
  ELSE IF text[i] = "\n" THEN <<cur>> \o Entries(text, i + 1, <<>>)
  ELSE Entries(text, i + 1, Append(cur, text[i]))

\* the deployment, the service account, and the role and role binding of the two
\* grants ensureTiller sets up
SixTargets ==
  {<<"Deployment", privateConfig.TillerNamespace, tillerDeploymentName>>,
   <<"ServiceAccount", privateConfig.TillerNamespace, tillerServiceAccountName>>}
  \cup {<<"Role", RbNamespace(k), RbName(k)>> : k \in 1..2}
  \cup {<<"RoleBinding", RbNamespace(k), BindingName(RbName(k))>> : k \in 1..2}

\* C4: when DeleteTiller has returned, all six deletions were attempted whichever
\* of them failed; it returned nil exactly when none failed, and otherwise one
\* error whose message lists the messages of exactly the failed deletions.
C4_TeardownAggregates ==
  (tdPc = "idle" /\ tdAttempted # <<>>) =>
     /\ Len(tdAttempted) = 6
     /\ {tdAttempted[i] : i \in 1..Len(tdAttempted)} = SixTargets
     /\ tdResult.isNil <=> tdFailed = <<>>
     /\ Entries(tdResult.msg, 1, <<>>) = [i \in 1..Len(tdFailed) |-> tdFailed[i].msg]

\* C4 witness: DeleteTiller has returned after three failures, the first of them
\* on the deployment, with later deletions done
C4_Witness ==
  /\ tdPc = "idle"
  /\ Len(tdAttempted) = 6
  /\ Len(tdFailed) = 3
  /\ tdFailed[1] = ErrServer
  /\ deployment.exists
  /\ ~tdResult.isNil
  /\ roles = {}

----------------------------------------------------------------------------
(* SpecLifecycle: ensureTiller on an empty cluster, and DeleteTiller with  *)
(* the same privateConfig once ensureTiller is over                        *)

\* NewClient is at line 87, about to call ensureTiller, on a cluster with nothing
\* of tiller in it
InitLifecycle ==
  /\ privateConfig \in [TillerNamespace : {"kube-system"}, ReleaseNamespace : Namespaces]
  /\ deployment = EmptyDeployment
  /\ serviceAccounts = {}
  /\ roles = {}
  /\ roleBindings = {}
  /\ pc = "et_check"
  /\ run = 1
  /\ upgradeTiller \in BOOLEAN
  /\ tillerCheckErr = NilErr /\ rbCall = 0 /\ rbErr = NilErr /\ tillerErr = NilErr
  /\ tillerWaitingTime = 0 /\ tunnelWaitTime = 0 /\ tunnelErr = NilErr
  /\ tunnel = FALSE /\ helmWaitTime = 0 /\ tillerError = NilErr
  /\ ncResult = [wrapper |-> FALSE, err |-> NilErr]
  /\ saFault = FALSE /\ polls = 0 /\ pollEqual = FALSE /\ tunnelAttempts = 0
  /\ tunnelOkAt = 0 /\ lastConnectErr = NilErr /\ probeAttempts = 0
  /\ saCreateCalls = <<0>> /\ saAfterRun = <<>> /\ saAtStart = FALSE
  /\ rbRoleErr = NilErr /\ rbBindingErr = NilErr /\ waitLog = <<>> /\ etSteps = <<>>
  /\ InitTeardown /\ InitIdleRelease /\ InitIdleRepos /\ InitIdleIndicator

\* line 277: DeleteTiller is called when ensureTiller is over
DeleteTillerAfterEnsureTiller ==
  /\ ~InEnsureTiller
  /\ DeleteTillerCall

NextLifecycle ==
  \/ EnsureTillerCheck
  \/ ServiceAccountGet
  \/ ServiceAccountCreate
  \/ RoleCreate
  \/ RoleBindingCreate
  \/ EnsureTillerAfterRoleBinding
  \/ TillerInstall
  \/ TillerPoll
  \/ DeploymentStatusChange
  \/ AfterEnsureTiller
  \/ DeleteTillerAfterEnsureTiller
  \/ DeleteDeployment
  \/ DeleteServiceAccount
  \/ DeleteRole
  \/ DeleteRoleBinding
  \/ MergeErrors

SpecLifecycle == InitLifecycle /\ [][NextLifecycle]_vars

\* everything ensureTiller creates was in the cluster when DeleteTiller was called
FullInstall ==
  /\ tdBefore.deployment
  /\ tdBefore.serviceAccounts = {TillerSA("none")}
  /\ tdBefore.roles = {<<RbNamespace(k), RbName(k)>> : k \in 1..2}
  /\ tdBefore.roleBindings = {<<RbNamespace(k), BindingName(RbName(k))>> : k \in 1..2}

\* C20: when ensureTiller has created everything it creates on an empty cluster,
\* and the cluster then refuses none of DeleteTiller's calls, every deletion finds
\* its object: DeleteTiller returns nil and nothing ensureTiller created is left.
C20_TeardownUndoesInstall ==
  (/\ tdPc = "idle" /\ tdAttempted # <<>>
   /\ FullInstall
   /\ \A i \in 1..Len(tdFailed) : tdFailed[i] = ErrNotFound) =>
     /\ tdFailed = <<>>
     /\ tdResult.isNil
     /\ Objects = NoObjects

\* C20 witness: release namespace and tiller namespace differ; all six objects
\* were there, all six deletions went through
C20_Witness ==
  /\ tdPc = "idle"
  /\ Len(tdAttempted) = 6
  /\ FullInstall
  /\ privateConfig.ReleaseNamespace # privateConfig.TillerNamespace
  /\ tdFailed = <<>>
  /\ Objects = NoObjects

----------------------------------------------------------------------------
(* SpecRelease: ReleaseExists and InstallChartByPath (lines 405-503), called *)
(* by two callers against one tiller                                        *)

outsideRelease == <<clusterVars, clientVars, histVars, teardownVars, repoVars, indicatorVars>>

\* the control plane NewClient leaves behind when it hands back a wrapper
InitReadyCluster ==
  /\ privateConfig = [TillerNamespace |-> "kube-system", ReleaseNamespace |-> "apps"]
  /\ deployment = [exists |-> TRUE, replicas |-> 1, readyReplicas |-> 1]
  /\ serviceAccounts = {TillerSA("none")}
  /\ roles = {<<RbNamespace(k), RbName(k)>> : k \in 1..2}
  /\ roleBindings = {<<RbNamespace(k), BindingName(RbName(k))>> : k \in 1..2}

InitRelease ==
  /\ InitReadyCluster /\ InitClient /\ InitHist /\ InitTeardown /\ InitIdleRepos
  /\ InitIdleIndicator
  /\ releases \in [ReleaseNames -> 0..1]
  /\ upsert = [c \in Callers |-> NoCall]

\* (mutant) strings.HasPrefix instead of strings.Contains
HasPrefix(text, sub) == Len(sub) <= Len(text) /\ SubSeq(text, 1, Len(sub)) = sub

\* line 410: strings.Contains, on token sequences
Contains(text, sub) ==
  \E i \in 1..(Len(text) + 1) :
     /\ i + Len(sub) - 1 <= Len(text)
     /\ SubSeq(text, i, i + Len(sub) - 1) = sub

\* line 410: helmstoragedriver.ErrReleaseNotFound(releaseName): release: %q not found
ErrReleaseNotFound(releaseName) ==
  NewError(<<"release: ", "\"">> \o releaseName \o <<"\"", " not found">>)

\* an error as it comes back over gRPC
Rpc(e) == NewError(<<"rpc error: code = Unknown desc = ">> \o e.msg)

ErrTransport == NewError(<<"rpc error: code = Unavailable desc = transport is closing">>)

\* what tiller answers to ReleaseHistory(releaseName, max 1)
HistoryAnswers(releaseName) ==
  (IF releases[releaseName] > 0
   THEN {[kind |-> "ok", err |-> NilErr]}
   ELSE {[kind |-> "notfound", err |-> e] :
           e \in {ErrReleaseNotFound(releaseName), Rpc(ErrReleaseNotFound(releaseName))}})
  \cup {[kind |-> "failure", err |-> e] : e \in {ErrTransport, ErrRPC}}

\* line 410: the test that tells a missing release from a failure
IsReleaseNotFound(msg, releaseName) == Contains(msg, ErrReleaseNotFound(releaseName).msg)

\* lines 409-415: what ReleaseExists returns for the error of the history query
ReleaseExistsResult(releaseName, releaseHistoryErr) ==
  IF ~releaseHistoryErr.isNil
  THEN IF IsReleaseNotFound(releaseHistoryErr.msg, releaseName)
       THEN [exists |-> FALSE, err |-> NilErr]
       ELSE [exists |-> FALSE, err |-> releaseHistoryErr]
  ELSE [exists |-> TRUE, err |-> NilErr]

ErrChartLoad == NewError(<<"no Chart.yaml">>)
ErrRequirements == NewError(<<"cannot load requirements">>)
ErrDownload == NewError(<<"could not download">>)
ErrYaml == NewError(<<"yaml: cannot marshal">>)
ErrNameInUse == NewError(<<"a release named that already exists">>)
ErrNoDeployed == NewError(<<"has no deployed releases">>)

\* (mutant) the error of a step before the remote call is noted, and the call
\* goes on to its remote call
UpsertGoesOn(c, rel, e) ==
  upsert' = [upsert EXCEPT ![c].pc = "mutate", ![c].prepErr = e]

\* lines 423, 431, 446, 451, 457, 466: InstallChartByPath returns (nil, err) to
\* caller c from a step before the remote call; prepErr notes the step's error
UpsertReturn(c, rel, e) ==
  upsert' = [upsert EXCEPT ![c].pc = "idle", ![c].release = rel, ![c].err = e,
                           ![c].prepErr = e]

\* line 419: InstallChartByPath is called
InstallChartByPathCall(c) ==
  /\ upsert[c].pc = "idle"
  /\ upsert[c].n < MaxUpserts
  /\ \E name \in ReleaseNames, deps \in BOOLEAN, vals \in BOOLEAN :
       upsert' = [upsert EXCEPT ![c] =
                    [NoCall EXCEPT !.pc = "load", !.n = upsert[c].n + 1,
                                   !.releaseName = name, !.hasDependencies = deps,
                                   !.hasValues = vals]]
  /\ UNCHANGED <<outsideRelease, releases>>

\* lines 420-428: helmchartutil.Load
LoadChart(c) ==
  /\ upsert[c].pc = "load"
  /\ \E err \in {NilErr, ErrChartLoad} :
       IF ~err.isNil
       THEN UpsertReturn(c, FALSE, err)
       ELSE upsert' = [upsert EXCEPT ![c].pc =
                         IF upsert[c].hasDependencies THEN "deps" ELSE "exists"]
  /\ UNCHANGED <<outsideRelease, releases>>

\* lines 428-453: requirements, dependency download, reload
ResolveDependencies(c) ==
  /\ upsert[c].pc = "deps"
  /\ \E err \in {NilErr, ErrRequirements, ErrDownload, ErrChartLoad} :
       IF ~err.isNil
       THEN UpsertReturn(c, FALSE, err)
       ELSE upsert' = [upsert EXCEPT ![c].pc = "exists"]
  /\ UNCHANGED <<outsideRelease, releases>>

\* line 454, lines 406-416: ReleaseExists asks tiller for the release's history
ReleaseExists(c) ==
  /\ upsert[c].pc = "exists"
  /\ \E answer \in HistoryAnswers(upsert[c].releaseName) :
       LET got == ReleaseExistsResult(upsert[c].releaseName, answer.err)
       IN upsert' = [upsert EXCEPT ![c].pc = "checked",
                                   ![c].historyKind = answer.kind,
                                   ![c].historyErr = answer.err,
                                   ![c].releaseExists = got.exists,
                                   ![c].releaseExistsErr = got.err,
                                   ![c].prepErr = got.err]
  /\ UNCHANGED <<outsideRelease, releases>>

\* lines 456-469: the error of ReleaseExists is returned; the values are marshalled
MarshalValues(c) ==
  /\ upsert[c].pc = "checked"
  /\ IF ~upsert[c].releaseExistsErr.isNil
     THEN UpsertReturn(c, FALSE, upsert[c].releaseExistsErr)
     ELSE \E yamlErr \in (IF upsert[c].hasValues THEN {NilErr, ErrYaml} ELSE {NilErr}) :
            IF ~yamlErr.isNil
            THEN UpsertReturn(c, FALSE, yamlErr)
            ELSE upsert' = [upsert EXCEPT ![c].pc = "mutate"]
  /\ UNCHANGED <<outsideRelease, releases>>

\* (mutant) the install path is taken whatever ReleaseExists returned
ChoosesUpgradeNever(releaseExists) == FALSE

\* line 472: the branch between UpdateRelease and InstallReleaseFromChart
ChoosesUpgrade(releaseExists) == releaseExists

\* lines 473-485: UpdateRelease with ReuseValues(false)
UpdateRelease(c) ==
  /\ upsert[c].pc = "mutate"
  /\ ChoosesUpgrade(upsert[c].releaseExists)
  /\ LET name == upsert[c].releaseName
         sent == Append(upsert[c].issued,
                        [op |-> "upgrade", name |-> name, reuse |-> FALSE,
                         existed |-> releases[name] > 0])
     IN \E err \in (IF releases[name] > 0 THEN {NilErr, ErrTransport} ELSE {ErrNoDeployed}) :
          /\ releases' = IF err.isNil THEN [releases EXCEPT ![name] = @ + 1] ELSE releases
          /\ upsert' = [upsert EXCEPT ![c].pc = "idle", ![c].issued = sent,
                                      ![c].release = err.isNil, ![c].err = err]
  /\ UNCHANGED outsideRelease

\* lines 487-500: InstallReleaseFromChart with InstallReuseName(false)
InstallRelease(c) ==
  /\ upsert[c].pc = "mutate"
  /\ ~ChoosesUpgrade(upsert[c].releaseExists)
  /\ LET name == upsert[c].releaseName
         sent == Append(upsert[c].issued,
                        [op |-> "install", name |-> name, reuse |-> FALSE,
                         existed |-> releases[name] > 0])
     IN \E err \in (IF releases[name] = 0 THEN {NilErr, ErrTransport} ELSE {ErrNameInUse}) :
          /\ releases' = IF err.isNil THEN [releases EXCEPT ![name] = 1] ELSE releases
          /\ upsert' = [upsert EXCEPT ![c].pc = "idle", ![c].issued = sent,
                                      ![c].release = err.isNil, ![c].err = err]
  /\ UNCHANGED outsideRelease

NextRelease ==
  \E c \in Callers :
     \/ InstallChartByPathCall(c)
     \/ LoadChart(c)
     \/ ResolveDependencies(c)
     \/ ReleaseExists(c)
     \/ MarshalValues(c)
     \/ UpdateRelease(c)
     \/ InstallRelease(c)

SpecRelease == InitRelease /\ [][NextRelease]_vars

----------------------------------------------------------------------------
(* Claims about ReleaseExists and InstallChartByPath, checked under SpecRelease *)

\* C6: InstallChartByPath issues no mutating call before ReleaseExists has
\* answered, and at most one after: an upgrade of that release with ReuseValues
\* off when ReleaseExists returned true, an install of it with InstallReuseName
\* off when it returned false; a call whose history query found the release
\* issues no install, and a call that returns a release has issued its one call.
C6_UpsertChoice ==
  \A c \in Callers :
     LET u == upsert[c]
     IN /\ Len(u.issued) <= 1
        /\ u.pc # "idle" => u.issued = <<>>
        /\ u.release => Len(u.issued) = 1
        /\ \A i \in 1..Len(u.issued) :
             /\ u.issued[i].name = u.releaseName
             /\ u.issued[i].reuse = FALSE
             /\ u.issued[i].op = IF u.releaseExists THEN "upgrade" ELSE "install"
             /\ u.historyKind = "ok" => u.issued[i].op # "install"
             /\ u.releaseExistsErr.isNil

\* C6 witness: a call that found the release has returned after its one upgrade
C6_Witness ==
  \E c \in Callers :
     /\ upsert[c].pc = "idle"
     /\ upsert[c].releaseExists
     /\ upsert[c].release
     /\ upsert[c].issued =
          <<[op |-> "upgrade", name |-> upsert[c].releaseName, reuse |-> FALSE,
             existed |-> TRUE]>>

\* C7: ReleaseExists returns (true, nil) when the history query succeeded,
\* (false, nil) when tiller answered that the release is not found, and
\* (false, err) with tiller's error as it came for every other failure.
C7_ExistsResult ==
  \A c \in Callers :
     LET u == upsert[c]
     IN u.pc = "checked" =>
          /\ u.historyKind = "ok" => u.releaseExists /\ u.releaseExistsErr.isNil
          /\ u.historyKind = "notfound" => ~u.releaseExists /\ u.releaseExistsErr.isNil
          /\ u.historyKind = "failure" =>
               /\ ~u.releaseExists
               /\ ~u.releaseExistsErr.isNil
               /\ u.releaseExistsErr = u.historyErr

\* C7 witness: tiller's not-found answer, as it comes over gRPC, was turned into
\* (false, nil)
C7_Witness ==
  \E c \in Callers :
     /\ upsert[c].pc = "checked"
     /\ upsert[c].historyKind = "notfound"
     /\ upsert[c].historyErr = Rpc(ErrReleaseNotFound(<<"a", "b">>))
     /\ ~upsert[c].releaseExists
     /\ upsert[c].releaseExistsErr.isNil

\* C17: a call in which chart loading, dependency resolution, the ReleaseExists
\* query or the marshalling of the values failed issues no install and no upgrade,
\* and returns that error and no release.
C17_NoMutationAfterFailure ==
  \A c \in Callers :
     LET u == upsert[c]
     IN /\ u.pc = "mutate" => u.prepErr.isNil
        /\ ~u.prepErr.isNil =>
             /\ u.issued = <<>>
             /\ u.pc \in {"checked", "idle"}
             /\ u.pc = "idle" => (u.err = u.prepErr /\ ~u.release)
        /\ \A i \in 1..Len(u.issued) : u.prepErr.isNil

\* C17 witness: the values could not be marshalled; the call has returned that
\* error without a remote call, and the release is as it was
C17_Witness ==
  \E c \in Callers :
     /\ upsert[c].pc = "idle"
     /\ upsert[c].prepErr = ErrYaml
     /\ upsert[c].err = ErrYaml
     /\ upsert[c].issued = <<>>
     /\ ~upsert[c].releaseExists
     /\ releases[upsert[c].releaseName] = 0

\* the installs issued for a release name, over all callers
InstallsOf(name) ==
  {<<c, i>> \in Callers \X (1..MaxUpserts) :
     /\ i <= Len(upsert[c].issued)
     /\ upsert[c].issued[i].op = "install"
     /\ upsert[c].issued[i].name = name}

\* C19: whatever the interleaving of the callers, at most one install is issued
\* for a release name, and none at a moment the release is already there.
C19_ReadBeforeWrite ==
  \A name \in ReleaseNames :
     /\ Cardinality(InstallsOf(name)) <= 1
     /\ \A x \in InstallsOf(name) : ~upsert[x[1]].issued[x[2]].existed

----------------------------------------------------------------------------
(* SpecRepos: updateRepos (lines 366-403), one goroutine per repository    *)

outsideRepos == <<clusterVars, clientVars, histVars, teardownVars, releaseVars, indicatorVars>>

ErrRepoFile == NewError(<<"couldn't load repositories file">>)
ErrRepoURL == NewError(<<"invalid chart URL format">>)

\* registry files: unreadable, or up to MaxRepos entries, each of which
\* NewChartRepository accepts or not
RECURSIVE EntryLists(_)
EntryLists(n) ==
  IF n = 0 THEN {<<>>}
  ELSE EntryLists(n - 1) \cup
       {Append(l, [valid |-> v]) : l \in {m \in EntryLists(n - 1) : Len(m) = n - 1},
                                   v \in BOOLEAN}

RepoFiles ==
  {[readable |-> FALSE, entries |-> <<>>]} \cup
  {[readable |-> TRUE, entries |-> l] : l \in EntryLists(MaxRepos)}

InitRepos ==
  /\ InitReadyCluster /\ InitClient /\ InitHist /\ InitTeardown /\ InitIdleRelease
  /\ InitIdleIndicator
  /\ \E f \in RepoFiles : InitUpdateRepos(f)

\* line 366: updateRepos is called
UpdateReposCall ==
  /\ urPc = "idle"
  /\ urPc' = "load"
  /\ UNCHANGED <<outsideRepos, repoFile, allRepos, repos, next, wg, task, outcome,
                 launches, urResult>>

\* lines 367-372: repo.LoadRepositoriesFile
LoadRepositoriesFile ==
  /\ urPc = "load"
  /\ IF repoFile.readable
     THEN /\ allRepos' = repoFile.entries
          /\ next' = 1
          /\ urPc' = IF repoFile.entries = <<>> THEN "wait" ELSE "prepare"
          /\ UNCHANGED urResult
     ELSE /\ urResult' = ErrRepoFile
          /\ urPc' = "done"
          /\ UNCHANGED <<allRepos, next>>
  /\ UNCHANGED <<outsideRepos, repoFile, repos, wg, task, outcome, launches>>

\* lines 374-381: repo.NewChartRepository for the entry at next
NewChartRepository ==
  /\ urPc = "prepare"
  /\ IF allRepos[next].valid
     THEN /\ repos' = Append(repos, next)
          /\ IF next < Len(allRepos)
             THEN next' = next + 1 /\ urPc' = "prepare"
             ELSE next' = 1 /\ urPc' = "spawn"
          /\ UNCHANGED urResult
     ELSE /\ urResult' = ErrRepoURL
          /\ urPc' = "done"
          /\ UNCHANGED <<repos, next>>
  /\ UNCHANGED <<outsideRepos, repoFile, allRepos, wg, task, outcome, launches>>

\* lines 384-398: wg.Add(1) and the go statement for the repository at next
Spawn ==
  /\ urPc = "spawn"
  /\ LET re == repos[next]
     IN /\ wg' = wg + 1
        /\ task' = [task EXCEPT ![re] = "running"]
        /\ launches' = [launches EXCEPT ![re] = @ + 1]
  /\ IF next < Len(repos)
     THEN next' = next + 1 /\ urPc' = "spawn"
     ELSE next' = next /\ urPc' = "wait"
  /\ UNCHANGED <<outsideRepos, repoFile, allRepos, repos, outcome, urResult>>

\* lines 390-396, in the goroutine of re: DownloadIndexFile, a failure only logged
DownloadIndexFile(re) ==
  /\ task[re] = "running"
  /\ \E res \in {"ok", "failed"} : outcome' = [outcome EXCEPT ![re] = res]
  /\ task' = [task EXCEPT ![re] = "downloaded"]
  /\ UNCHANGED <<outsideRepos, repoFile, urPc, allRepos, repos, next, wg, launches,
                 urResult>>

\* line 388, in the goroutine of re: the deferred wg.Done()
Done(re) ==
  /\ task[re] = "downloaded"
  /\ wg' = wg - 1
  /\ task' = [task EXCEPT ![re] = "finished"]
  /\ UNCHANGED <<outsideRepos, repoFile, urPc, allRepos, repos, next, outcome, launches,
                 urResult>>

\* (mutant) wg.Wait() does not block
WaitReturnsAtOnce(counter) == TRUE

\* line 400: wg.Wait() returns when the counter is zero
WaitReturns(counter) == counter = 0

\* lines 400-402
Wait ==
  /\ urPc = "wait"
  /\ WaitReturns(wg)
  /\ urResult' = NilErr
  /\ urPc' = "done"
  /\ UNCHANGED <<outsideRepos, repoFile, allRepos, repos, next, wg, task, outcome,
                 launches>>

NextRepos ==
  \/ UpdateReposCall
  \/ LoadRepositoriesFile
  \/ NewChartRepository
  \/ Spawn
  \/ \E re \in 1..MaxRepos : DownloadIndexFile(re)
  \/ \E re \in 1..MaxRepos : Done(re)
  \/ Wait

SpecRepos == InitRepos /\ [][NextRepos]_vars

----------------------------------------------------------------------------
(* Claims about updateRepos, checked under SpecRepos *)

Entry(i) == i \in 1..Len(repoFile.entries)

\* C9: updateRepos returns an error only when the registry file cannot be read;
\* with a readable registry it returns nil whichever repositories cannot be
\* prepared or refreshed, and has refreshed every repository that can be prepared.
C9_SyncAllErrors ==
  urPc = "done" =>
     /\ ~urResult.isNil <=> ~repoFile.readable
     /\ \A i \in 1..MaxRepos :
          (Entry(i) /\ repoFile.entries[i].valid) => task[i] = "finished"

----------------------------------------------------------------------------
(* SpecIndicator: loadingText (loading_text.go), a caller that starts and  *)
(* stops the indicator, and the goroutine Start launches                   *)

outsideIndicator == <<clusterVars, clientVars, histVars, teardownVars, releaseVars, repoVars>>

RECURSIVE Messages(_)
Messages(n) == IF n = 0 THEN {<<>>} ELSE Messages(n - 1) \cup {[i \in 1..n |-> "m"]}

InitIndicator ==
  /\ InitReadyCluster /\ InitClient /\ InitHist /\ InitTeardown /\ InitIdleRelease
  /\ InitIdleRepos
  /\ \E m \in Messages(MaxMessage) : InitLoadingText(m)

\* l.Stream.Write by the goroutine ("task") or by Stop ("stop")
Write(out, who, text) == Append(out, [by |-> who, text |-> text])

\* lines 45-54
LoadingChar(r) == <<"|", "/", "-", "\\">>[r + 1]

\* lines 56-60
NextRune(r) == IF r + 1 > 3 THEN 0 ELSE r + 1

\* lines 21-40: Start, up to the go statement
Start ==
  /\ ltPc = "idle"
  /\ ltCycles < MaxCycles
  /\ isShown' = FALSE
  /\ stopChan' = "made"
  /\ ltTask' = "r66"
  /\ ltPc' = "started"
  /\ ltCycles' = ltCycles + 1
  /\ ltRenders' = 0
  /\ UNCHANGED <<outsideIndicator, Message, loadingRune, Stream, ltI>>

\* lines 66-70: render, the carriage return of every render but the first
Render66 ==
  /\ ltTask = "r66"
  /\ IF isShown = FALSE
     THEN isShown' = TRUE /\ UNCHANGED Stream
     ELSE Stream' = Write(Stream, "task", "\r") /\ UNCHANGED isShown
  /\ ltTask' = "r73"
  /\ UNCHANGED <<outsideIndicator, ltPc, Message, loadingRune, stopChan, ltI, ltCycles, ltRenders>>

\* lines 72-74
Render73 ==
  /\ ltTask = "r73"
  /\ Stream' = Write(Stream, "task", "[WAIT] ")
  /\ ltTask' = "r76"
  /\ UNCHANGED <<outsideIndicator, ltPc, Message, isShown, loadingRune, stopChan, ltI, ltCycles,
                 ltRenders>>

\* line 76, with getLoadingChar (lines 42-63); render returns to the select
Render76 ==
  /\ ltTask = "r76"
  /\ Stream' = Write(Stream, "task", <<LoadingChar(loadingRune), " ">> \o Message)
  /\ loadingRune' = NextRune(loadingRune)
  /\ ltTask' = "select"
  /\ UNCHANGED <<outsideIndicator, ltPc, Message, isShown, stopChan, ltI, ltCycles, ltRenders>>

\* line 35: the timer fires and the select takes that case
Tick ==
  /\ ltTask = "select"
  /\ ltRenders < MaxRenders
  /\ ltRenders' = ltRenders + 1
  /\ ltTask' = "r66"
  /\ UNCHANGED <<outsideIndicator, ltPc, Message, isShown, loadingRune, stopChan, Stream, ltI,
                 ltCycles>>

\* line 79: Stop is called
StopCall ==
  /\ ltPc = "started"
  /\ ltPc' = "send"
  /\ UNCHANGED <<outsideIndicator, ltTask, Message, isShown, loadingRune, stopChan, Stream, ltI,
                 ltCycles, ltRenders>>

\* (mutant) a channel with room for the value: the send never waits
SendCompletesBuffered(receiver) == TRUE

\* lines 25, 80: a send on the unbuffered channel completes when the goroutine
\* is at its receive (line 33)
SendCompletes(receiver) == receiver = "select"

\* lines 80 and 33-34: the send, and with it the receive and the goroutine's return
StopSend ==
  /\ ltPc = "send"
  /\ stopChan = "made"
  /\ SendCompletes(ltTask)
  /\ ltTask' = IF ltTask = "select" THEN "dead" ELSE ltTask
  /\ ltPc' = "cr"
  /\ UNCHANGED <<outsideIndicator, Message, isShown, loadingRune, stopChan, Stream, ltI, ltCycles,
                 ltRenders>>

\* line 83
messageLength == Len(Message) + 9

\* line 81
StopCr ==
  /\ ltPc = "cr"
  /\ Stream' = Write(Stream, "stop", "\r")
  /\ ltI' = 0
  /\ ltPc' = "blank"
  /\ UNCHANGED <<outsideIndicator, ltTask, Message, isShown, loadingRune, stopChan, ltCycles,
                 ltRenders>>

\* lines 85-87: one pass of the loop
StopBlank ==
  /\ ltPc = "blank"
  /\ ltI < messageLength
  /\ Stream' = Write(Stream, "stop", " ")
  /\ ltI' = ltI + 1
  /\ UNCHANGED <<outsideIndicator, ltPc, ltTask, Message, isShown, loadingRune, stopChan,
                 ltCycles, ltRenders>>

\* lines 85, 89-90: the loop ends, the last carriage return, Stop returns
StopReturn ==
  /\ ltPc = "blank"
  /\ ~(ltI < messageLength)
  /\ Stream' = Write(Stream, "stop", "\r")
  /\ ltPc' = "idle"
  /\ UNCHANGED <<outsideIndicator, ltTask, Message, isShown, loadingRune, stopChan, ltI,
                 ltCycles, ltRenders>>

NextIndicator ==
  \/ Start
  \/ Render66
  \/ Render73
  \/ Render76
  \/ Tick
  \/ StopCall
  \/ StopSend
  \/ StopCr
  \/ StopBlank
  \/ StopReturn

SpecIndicator == InitIndicator /\ [][NextIndicator]_vars

----------------------------------------------------------------------------
(* Claims about loadingText, checked under SpecIndicator *)

\* Stop has returned and Start was not called since
StopReturned == ltPc = "idle" /\ ltCycles > 0

\* what Stop writes: "\r", messageLength blanks, "\r"
ClearingSequence ==
  [k \in 1..(messageLength + 2) |->
     [by |-> "stop", text |-> IF k \in {1, messageLength + 2} THEN "\r" ELSE " "]]

\* the last n writes to the stream
Last(out, n) == SubSeq(out, Len(out) - n + 1, Len(out))

\* C18: from the moment Stop's send went through, the goroutine has ended and
\* every write is Stop's; when Stop has returned, the last output on the stream is
\* the clearing sequence, and it stays the last until the next Start.
C18_StopCleansUp ==
  /\ (ltPc \in {"cr", "blank"} \/ StopReturned) => ltTask = "dead"
  /\ ltPc = "blank" =>
       /\ Len(Stream) >= ltI + 1
       /\ Last(Stream, ltI + 1) = SubSeq(ClearingSequence, 1, ltI + 1)
  /\ StopReturned =>
       /\ Len(Stream) >= messageLength + 2
       /\ Last(Stream, messageLength + 2) = ClearingSequence

\* C18 witness: the second Stop has returned after the indicator was rendered
\* three times (once at once, twice on the timer)
C18_Witness ==
  /\ StopReturned
  /\ ltCycles = 2
  /\ ltRenders = 2
  /\ Message = <<"m">>
  /\ ltTask = "dead"

====
